---- MODULE Spec2Model ----
(***************************************************************************)
(* Model of the waypoint updater node (waypoint_updater.py) and of the     *)
(* drive-by-wire node (dbw_node.py).                                       *)
(*                                                                         *)
(* Units.  Positions are integers in decimetres (0.1 m); path lengths,     *)
(* the stop distance, velocities and the acceleration are integers in      *)
(* thousandths (mm, mm/s, mm/s^2).  math.sqrt is the floor square root of  *)
(* the scaled argument.  The Localizer compares squared distances, which   *)
(* orders them as the code's square roots do; squares are kept as pairs    *)
(* <<hi, lo>> in base 10^6 so that the code's 1000000 m start value fits.  *)
(* Python indices are kept 0-based; At(s, i) reads s[i].                   *)
(***************************************************************************)
EXTENDS Integers, Sequences, FiniteSets, TLC

VARIABLES
    heap,               \* the Waypoint objects of every delivered Lane message
    base_waypoints,     \* self.base_waypoints: a reference into heap, EmptyList or NoneRef
    original_wpvel,     \* self.original_wpvel
    next_waypoint,      \* self.next_waypoint (None or an index)
    current_pose,       \* self.current_pose (NoPose or <<x, y>>)
    redlight_wp,        \* self.redlight_wp (None or an index)
    msg_seq,            \* self.msg_seq
    params,             \* stop_on_red, force_stop_on_last_waypoint, accel, stop_distance
    published,          \* header.seq of every Lane message published, oldest first
    final_msg,          \* the Lane message published last, as serialised by publish
    last,               \* what the last handler or call did (return value, arguments)
    thr,                \* the threads of the node and their local variables
    dbw                 \* the DBWNode object and what its loop did

vars == <<heap, base_waypoints, original_wpvel, next_waypoint, current_pose,
          redlight_wp, msg_seq, params, published, final_msg, last, thr, dbw>>

(***************************************************************************)
(* Values                                                                  *)
(***************************************************************************)
None == -1
NoneRef == -1
EmptyList == 0
NoPose == <<>>

At(s, i) == s[i + 1]
\* The sequence s with its elements evaluated once (TLC keeps [k \in S |-> e]
\* unevaluated and computes e at every use)
Eval(s) == s \o <<>>
Abs(n) == IF n < 0 THEN -n ELSE n
Min(a, b) == IF a < b THEN a ELSE b
Range0(n) == 0 .. (n - 1)

RECURSIVE IsqrtR(_, _, _)
IsqrtR(n, lo, hi) ==
    IF lo >= hi THEN lo
    ELSE LET mid == (lo + hi + 1) \div 2
         IN  IF mid * mid <= n THEN IsqrtR(n, mid, hi) ELSE IsqrtR(n, lo, mid - 1)

\* math.sqrt on a non-negative scaled integer
Isqrt(n) == IsqrtR(n, 0, 46340)

\* a * a as <<hi, lo>>, hi * 10^6 + lo, for 0 <= a < 46000000
BigSq(a) ==
    LET a1 == a \div 1000
        a0 == a % 1000
        m  == 2 * a1 * a0
        hi == a1 * a1 + (m \div 1000)
        lo == (m % 1000) * 1000 + a0 * a0
    IN  <<hi + (lo \div 1000000), lo % 1000000>>

BigAdd(p, q) == <<p[1] + q[1] + ((p[2] + q[2]) \div 1000000), (p[2] + q[2]) % 1000000>>
BigLess(p, q) == p[1] < q[1] \/ (p[1] = q[1] /\ p[2] < q[2])

\* wp_d of line 76, squared, in dm^2
WpDist2(pose, pos) == BigAdd(BigSq(Abs(pose[1] - pos[1])), BigSq(Abs(pose[2] - pos[2])))

\* dist = 1000000 of line 63 (10^7 dm), squared
LongNumber2 == <<100000000, 0>>
\* max_local_dist = 20.0 of line 12 (200 dm), squared
max_local_dist2 == <<0, 40000>>

(***************************************************************************)
(* The waypoints self.base_waypoints refers to                             *)
(***************************************************************************)
Wps(ref) == IF ref > 0 THEN heap[ref] ELSE <<>>
Truthy(n) == n # None /\ n # 0

(***************************************************************************)
(* next_wpUpdate, lines 49-92                                              *)
(***************************************************************************)
\* LocBody returning, at the break of line 84, the index the loop is at
LocBody_BreakAtIdx(s, idx, wp_d) ==
    IF BigLess(wp_d, s.dist)
        THEN [s EXCEPT !.dist = wp_d, !.wp = idx, !.seen = s.seen + 1]
    ELSE IF ~s.full_search
        THEN IF BigLess(s.dist, max_local_dist2)
                THEN [s EXCEPT !.stop = TRUE, !.wp = idx, !.seen = s.seen + 1]
                ELSE [s EXCEPT !.full_search = TRUE, !.seen = s.seen + 1]
    ELSE [s EXCEPT !.seen = s.seen + 1]

\* One iteration of the loop of lines 72-86 at index idx; s.stop is the break.
LocBody(s, idx, wp_d) ==
    IF BigLess(wp_d, s.dist)
        THEN [s EXCEPT !.dist = wp_d, !.wp = idx, !.seen = s.seen + 1]
    ELSE IF ~s.full_search
        THEN IF BigLess(s.dist, max_local_dist2)
                THEN [s EXCEPT !.stop = TRUE, !.seen = s.seen + 1]
                ELSE [s EXCEPT !.full_search = TRUE, !.seen = s.seen + 1]
    ELSE [s EXCEPT !.seen = s.seen + 1]

\* The iterations i = lo .. hi of the loop of lines 72-86, in order; after the
\* break the remaining ones do nothing.  (The range is halved so that the
\* evaluation stays shallow; the iterations run in the code's order.)
RECURSIVE LocScan(_, _, _, _, _, _)
LocScan(wps, pose, idx_offset, lo, hi, s) ==
    IF lo > hi \/ s.stop THEN s
    ELSE IF lo = hi
        THEN LET idx == (lo + idx_offset) % Len(wps)
             IN  LocBody(s, idx, WpDist2(pose, At(wps, idx).pos))
    ELSE LET mid == (lo + hi) \div 2
         IN  LocScan(wps, pose, idx_offset, mid + 1, hi,
                     LocScan(wps, pose, idx_offset, lo, mid, s))

\* The scan of lines 62-86 from the previous index prev: the final wp (None when
\* no distance was below the start value) and the number of waypoints visited.
Localize(wps, pose, prev) ==
    LocScan(wps, pose, IF Truthy(prev) THEN prev ELSE 0, 0, Len(wps) - 1,
            [dist |-> LongNumber2, wp |-> None, full_search |-> ~Truthy(prev),
             stop |-> FALSE, seen |-> 0])

\* The readiness checks of lines 51-55
LocReady(ref, pose) == Len(Wps(ref)) > 0 /\ pose # NoPose

\* next_wpUpdate as a whole: its return value, self.next_waypoint after it, and
\* the number of waypoints its loop visited
next_wpUpdate(ref, pose, prev) ==
    IF ~LocReady(ref, pose) THEN [ret |-> FALSE, next_waypoint |-> prev, seen |-> 0]
    ELSE LET s == Localize(Wps(ref), pose, prev)
         IN  IF s.wp = None
                THEN [ret |-> FALSE, next_waypoint |-> prev, seen |-> s.seen]
                ELSE [ret |-> TRUE, next_waypoint |-> s.wp, seen |-> s.seen]

(***************************************************************************)
(* get_wpVel, set_wpVel, distance, sameWP: lines 186-206                   *)
(***************************************************************************)
get_wpVel(waypoints, waypoint) == At(waypoints, waypoint).vel

set_wpVel(waypoints, waypoint, velocity) ==
    [waypoints EXCEPT ![waypoint + 1] = [@ EXCEPT !.vel = velocity]]

Sq3(a, b) == (a[1] - b[1]) * (a[1] - b[1]) + (a[2] - b[2]) * (a[2] - b[2])
                + (a[3] - b[3]) * (a[3] - b[3])

\* dl of lines 194 and 202 in mm, from positions in dm: 100 * sqrt(q), the
\* square root taken at the finest scale that fits the integers
dl(a, b) ==
    LET q == Sq3(a, b)
    IN  IF q <= 200000 THEN Isqrt(q * 10000)
        ELSE IF q <= 20000000 THEN 10 * Isqrt(q * 100)
        ELSE 100 * Isqrt(q)

\* distance(waypoints, wp1, wp2) where waypoints[k] is objs[fw[k]]: the loop of
\* lines 195-197 adds the leg from the previous entry to entry i (0 for i = wp1).
\* The sum is split in halves so that the evaluation stays shallow.
RECURSIVE distance(_, _, _, _)
distance(objs, fw, wp1, wp2) ==
    IF wp2 <= wp1 THEN 0
    ELSE IF wp2 = wp1 + 1
        THEN dl(At(objs, At(fw, wp1)).pos, At(objs, At(fw, wp2)).pos)
    ELSE LET mid == (wp1 + wp2) \div 2
         IN  distance(objs, fw, wp1, mid) + distance(objs, fw, mid, wp2)

\* sameWP, max_d = 0.5 (5 dm): distdif < max_d
sameWP(wp1, wp2) == Sq3(wp1.pos, wp2.pos) < 5 * 5

(***************************************************************************)
(* deaccel, lines 169-183.  waypoints is the list final_waypoints, whose   *)
(* entry k is the object objs[fw[k]]; selfp holds self.stop_distance and   *)
(* self.accel.                                                             *)
(***************************************************************************)
\* The comparison of line 180 and the velocity of line 181
DeaccelVel(d, vel, stop_distance, selfp) ==
    IF d > selfp.stop_distance
        THEN Isqrt(2 * Abs(selfp.accel) * (d - stop_distance))
        ELSE vel

\* DeaccelSet without the test of line 182
DeaccelSet_Always(objs, fw, idx, vel) == set_wpVel(objs, At(fw, idx), vel)

\* DeaccelSet moving the velocity halfway to the profile instead of onto it
DeaccelSet_Halfway(objs, fw, idx, vel) ==
    IF vel < get_wpVel(objs, At(fw, idx))
        THEN set_wpVel(objs, At(fw, idx), (vel + get_wpVel(objs, At(fw, idx))) \div 2)
        ELSE objs

\* Lines 182-183 at window entry idx
DeaccelSet(objs, fw, idx, vel) ==
    IF vel < get_wpVel(objs, At(fw, idx))
        THEN set_wpVel(objs, At(fw, idx), vel)
        ELSE objs

\* DeaccelBody with lines 182-183 inside the test of line 178
DeaccelBody_SkipBeyond(s, fw, idx, stop_index, step, stop_distance, selfp) ==
    LET d1   == IF idx < stop_index THEN s.d + step ELSE s.d
        vel1 == IF idx < stop_index
                    THEN DeaccelVel(d1, s.vel, stop_distance, selfp)
                    ELSE s.vel
    IN  [d |-> d1, vel |-> vel1,
         objs |-> IF idx < stop_index THEN DeaccelSet(s.objs, fw, idx, vel1) ELSE s.objs]

\* One iteration of the loop of lines 177-183
DeaccelBody(s, fw, idx, stop_index, step, stop_distance, selfp) ==
    LET d1   == IF idx < stop_index THEN s.d + step ELSE s.d
        vel1 == IF idx < stop_index
                    THEN DeaccelVel(d1, s.vel, stop_distance, selfp)
                    ELSE s.vel
    IN  [d |-> d1, vel |-> vel1, objs |-> DeaccelSet(s.objs, fw, idx, vel1)]

\* The iterations of the loop of lines 177-183 for idx = hi down to lo, in that
\* order (the range is halved so that the evaluation stays shallow; d is never
\* negative, and reading it first makes TLC evaluate s before it goes on).
RECURSIVE DeaccelLoop(_, _, _, _, _, _, _, _)
DeaccelLoop(s, fw, lo, hi, stop_index, step, stop_distance, selfp) ==
    IF s.d < 0 \/ lo > hi THEN s
    ELSE IF lo = hi
        THEN DeaccelBody(s, fw, lo, stop_index, step, stop_distance, selfp)
    ELSE LET mid == (lo + hi) \div 2
         IN  DeaccelLoop(
                DeaccelLoop(s, fw, mid + 1, hi, stop_index, step, stop_distance, selfp),
                fw, lo, mid, stop_index, step, stop_distance, selfp)

deaccel(objs, fw, stop_index, stop_distance, selfp) ==
    IF stop_index <= 0 THEN objs
    ELSE LET dist == distance(objs, fw, 0, stop_index)
             step == dist \div stop_index
         IN  DeaccelLoop([d |-> 0, vel |-> 0, objs |-> objs], fw, 0, Len(fw) - 1,
                         stop_index, step, stop_distance, selfp).objs

\* restore_velocities, lines 165-167
restore_velocities(objs, orig, indexes) ==
    LET touched == {indexes[k] : k \in 1 .. Len(indexes)}
    IN  Eval([i \in 1 .. Len(objs) |->
                IF (i - 1) \in touched THEN [objs[i] EXCEPT !.vel = orig[i]]
                                       ELSE objs[i]])

(***************************************************************************)
(* Initial values of the parts a specification does not use                *)
(***************************************************************************)
NoMsg == [seq |-> None, ref |-> NoneRef, idx |-> <<>>, vel |-> <<>>]
ThrInit == [main |-> [pc |-> "idle"], tcb |-> [pc |-> "idle"], wcb |-> [pc |-> "idle"]]
\* DBWNode.__init__, dbw_node.py lines 54-58.  A received message is <<v>>, v its
\* twist.linear.x in mm/s, or the number of waypoints of a window; <<>> is None.
\* alive: the loop has not been ended by an exception; tick: what the last
\* iteration of the loop did.
NoTick == [ran |-> FALSE, missing |-> FALSE, window |-> <<>>, controlled |-> FALSE,
           reset |-> FALSE, published |-> FALSE, raised |-> FALSE]
DbwInit == [is_dbw_enabled |-> FALSE, current_velocity |-> <<>>,
            proposed_velocity |-> <<>>, final_waypoints |-> <<>>,
            current_pose |-> NoPose, alive |-> TRUE, ticks |-> 0, tick |-> NoTick]

Vels(objs) == Eval([i \in 1 .. Len(objs) |-> objs[i].vel])
Identity(n) == Eval([k \in 1 .. n |-> k - 1])

(***************************************************************************)
(* SpecDeaccel: deaccel as a function of its arguments.  The list handed   *)
(* to it holds distinct Waypoint objects; the call is either the one of    *)
(* line 116 (stop_distance = self.stop_distance) or the one of line 122    *)
(* (stop_distance = 0).                                                    *)
(***************************************************************************)
MaxDcLen == 4
MaxApply == 2

DcGaps == {10, 30}
DcVels == {1000, 5000}
DcParams == [stop_on_red : {TRUE}, force_stop_on_last_waypoint : {TRUE},
             accel : {-1000, -2000}, stop_distance : {1000, 5000}]

RECURSIVE DcPathsOfLen(_)
DcPathsOfLen(n) ==
    IF n = 1 THEN {<<[pos |-> <<0, 0, 0>>, vel |-> v]>> : v \in DcVels}
    ELSE {Append(p, [pos |-> <<p[n - 1].pos[1] + g, 0, 0>>, vel |-> v]) :
            p \in DcPathsOfLen(n - 1), g \in DcGaps, v \in DcVels}

DcPaths == UNION {DcPathsOfLen(n) : n \in 1 .. MaxDcLen}

DcInit ==
    /\ \E p \in DcPaths :
        /\ heap = <<p>>
        /\ original_wpvel = Vels(p)
        /\ \E S \in Range0(Len(p)), line \in {116, 122} :
            last = [op |-> "init", stop_index |-> S, line |-> line,
                    pre |-> Vels(p), n |-> 0, first |-> <<>>]
    /\ params \in DcParams
    /\ base_waypoints = 1
    /\ next_waypoint = None
    /\ current_pose = NoPose
    /\ redlight_wp = None
    /\ msg_seq = 0
    /\ published = <<>>
    /\ final_msg = NoMsg
    /\ thr = ThrInit
    /\ dbw = DbwInit

\* The third argument of the call at the given line
DcStopDistance(line) == IF line = 116 THEN params.stop_distance ELSE 0

\* deaccel applied with the arguments chosen at the start; last.first keeps the
\* velocities its first application gave
DcApply ==
    /\ last.n < MaxApply
    /\ \E h \in {deaccel(heap[1], Identity(Len(heap[1])), last.stop_index,
                         DcStopDistance(last.line), params)} :
        /\ heap' = <<h>>
        /\ last' = [last EXCEPT !.op = "deaccel", !.pre = Vels(heap[1]), !.n = @ + 1,
                                !.first = IF last.n = 0 THEN Vels(h) ELSE @]
    /\ UNCHANGED <<base_waypoints, original_wpvel, next_waypoint, current_pose,
                   redlight_wp, msg_seq, params, published, final_msg, thr, dbw>>

\* restore_velocities on the whole window, as at line 113, after an application
DcRestore ==
    /\ last.op = "deaccel" /\ last.n < MaxApply
    /\ heap' = <<restore_velocities(heap[1], original_wpvel, Identity(Len(heap[1])))>>
    /\ last' = [last EXCEPT !.op = "restore"]
    /\ UNCHANGED <<base_waypoints, original_wpvel, next_waypoint, current_pose,
                   redlight_wp, msg_seq, params, published, final_msg, thr, dbw>>

DcNext == DcApply \/ DcRestore

SpecDeaccel == DcInit /\ [][DcNext]_vars

(***************************************************************************)
(* Claims about deaccel (SpecDeaccel)                                      *)
(***************************************************************************)
DcVel(k) == get_wpVel(heap[1], k)
DcPre(k) == At(last.pre, k)
DcTriggered == last.op = "deaccel" /\ last.stop_index > 0

\* 4 waypoints at 0, 1, 2, 3 m with velocity 5.0, stop index 2, standoff 1.0,
\* deceleration magnitude 2.0
DcExample ==
    /\ Len(heap[1]) = 4
    /\ \A k \in Range0(4) : At(heap[1], k).pos = <<10 * k, 0, 0>>
    /\ last.pre = <<5000, 5000, 5000, 5000>>
    /\ last.stop_index = 2 /\ last.line = 116
    /\ params.stop_distance = 1000 /\ params.accel = -2000

\* C1 as stated: one stop trigger at offset S > 0 leaves every entry at offset >= S
\* unchanged and only lowers entries at offsets < S; the example gives
\* [2.0, 0.0, 0.0, 5.0].
C1_Original ==
    DcTriggered =>
        /\ \A k \in Range0(Len(heap[1])) :
            IF k >= last.stop_index THEN DcVel(k) = DcPre(k) ELSE DcVel(k) <= DcPre(k)
        /\ DcExample => Vels(heap[1]) = <<2000, 0, 0, 5000>>

\* C1 amended: one stop trigger at offset S > 0 raises no velocity, and lowers every
\* entry at offset >= S to 0 (leaves it alone only if it is already <= 0); the
\* example gives [2.0, 0.0, 0.0, 0.0].
C1_Amended ==
    DcTriggered =>
        /\ \A k \in Range0(Len(heap[1])) :
            IF k >= last.stop_index THEN DcVel(k) = Min(DcPre(k), 0)
                                    ELSE DcVel(k) <= DcPre(k)
        /\ DcExample => Vels(heap[1]) = <<2000, 0, 0, 0>>

C1_Witness ==
    /\ DcTriggered /\ DcExample /\ last.n = 1
    /\ Vels(heap[1]) = <<2000, 0, 0, 0>>

\* p(k) of C4 for the trigger applied last: step = dist / S, d = (S - k) * step
DcProfile(k) ==
    LET S    == last.stop_index
        D    == DcStopDistance(last.line)
        step == distance(heap[1], Identity(Len(heap[1])), 0, S) \div S
        d    == (S - k) * step
    IN  IF d > D THEN Isqrt(2 * Abs(params.accel) * (d - D)) ELSE 0

\* C4 as stated: for the upstream-stop trigger and the end-of-path trigger alike,
\* every entry k < S ends with min(its velocity before the trigger, p(k)), the same
\* standoff D being used in the comparison d > D and in sqrt(2|a|(d - D)).
C4_Claim ==
    DcTriggered =>
        \A k \in Range0(last.stop_index) : DcVel(k) = Min(DcPre(k), DcProfile(k))

\* C4 restricted to the upstream-stop trigger, whose standoff is self.stop_distance
C4_UpstreamOnly ==
    (DcTriggered /\ last.line = 116) =>
        \A k \in Range0(last.stop_index) : DcVel(k) = Min(DcPre(k), DcProfile(k))

\* C16: applying the profile twice with the same stop parameters to a window
\* restored to baseline gives the velocities one application gives, and so does a
\* second run on the window restored again.
C16_Claim ==
    (last.op = "deaccel" /\ last.n >= 2) => Vels(heap[1]) = last.first

\* A second run that lowered a velocity again, after a restore or on top of the first
C16_Witness ==
    /\ last.op = "deaccel" /\ last.n = 2 /\ last.stop_index > 1
    /\ \E k \in 1 .. Len(heap[1]) : 0 < heap[1][k].vel /\ heap[1][k].vel < original_wpvel[k]

(***************************************************************************)
(* SpecLoc: next_wpUpdate on arbitrary paths, positions and previous       *)
(* indices, with pose_cb between the calls.                                *)
(***************************************************************************)
MaxLocLen == 4

LocPts == {<<20, 0, 0>>, <<-20, 0, 0>>, <<300, 0, 0>>, <<0, 400, 0>>}
LocPoses == {<<0, 0>>, <<10, 0>>, <<290, 0>>, <<20000000, 0>>}

RECURSIVE LocPathsOfLen(_)
LocPathsOfLen(n) ==
    IF n = 0 THEN {<<>>}
    ELSE {Append(p, [pos |-> q, vel |-> 5000]) : p \in LocPathsOfLen(n - 1), q \in LocPts}

LocPaths == UNION {LocPathsOfLen(n) : n \in 1 .. MaxLocLen}

LocInit ==
    /\ \E p \in LocPaths :
        /\ heap = <<p>>
        /\ original_wpvel = Vels(p)
        /\ next_waypoint \in {None} \cup Range0(Len(p))
    /\ current_pose \in LocPoses \cup {NoPose}
    /\ last = [op |-> "init", ret |-> FALSE, prev |-> None, seen |-> 0]
    /\ params = [stop_on_red |-> TRUE, force_stop_on_last_waypoint |-> TRUE,
                 accel |-> -1000, stop_distance |-> 5000]
    /\ base_waypoints = 1
    /\ redlight_wp = None
    /\ msg_seq = 0
    /\ published = <<>>
    /\ final_msg = NoMsg
    /\ thr = ThrInit
    /\ dbw = DbwInit

LocPose ==
    /\ \E p \in LocPoses : current_pose' = p
    /\ last' = [op |-> "pose_cb", ret |-> FALSE, prev |-> next_waypoint, seen |-> 0]
    /\ UNCHANGED <<heap, base_waypoints, original_wpvel, next_waypoint, redlight_wp,
                   msg_seq, params, published, final_msg, thr, dbw>>

LocRun ==
    \E r \in {next_wpUpdate(base_waypoints, current_pose, next_waypoint)} :
        /\ next_waypoint' = r.next_waypoint
        /\ last' = [op |-> "next_wpUpdate", ret |-> r.ret, prev |-> next_waypoint,
                    seen |-> r.seen]
        /\ UNCHANGED <<heap, base_waypoints, original_wpvel, current_pose, redlight_wp,
                       msg_seq, params, published, final_msg, thr, dbw>>

LocNext == LocPose \/ LocRun

SpecLoc == LocInit /\ [][LocNext]_vars

(***************************************************************************)
(* Claims about the Localizer (SpecLoc)                                    *)
(***************************************************************************)
LocDist(i) == WpDist2(current_pose, At(Wps(base_waypoints), i).pos)
LocLen == Len(Wps(base_waypoints))

\* The index an exhaustive scan in ascending order finds: the lowest index at
\* the smallest distance
BruteNearest ==
    CHOOSE i \in Range0(LocLen) :
        /\ \A j \in Range0(LocLen) : ~BigLess(LocDist(j), LocDist(i))
        /\ \A j \in Range0(i) : BigLess(LocDist(i), LocDist(j))

LocCalled == last.op = "next_wpUpdate" /\ LocLen > 0 /\ current_pose # NoPose

\* C9 as stated: with no previous index the Localizer returns the lowest index at
\* the smallest Euclidean distance, for any non-empty path and any position,
\* however far from the path.
C9_Claim ==
    (LocCalled /\ last.prev = None) =>
        (last.ret /\ next_waypoint = BruteNearest)

\* The waypoints the scan of the last call visited, walking from the previous index
LocVisited ==
    {((IF Truthy(last.prev) THEN last.prev ELSE 0) + i) % LocLen : i \in Range0(last.seen)}

LocNearestInReach ==
    /\ LocCalled /\ last.prev # None
    /\ BigLess(LocDist(BruteNearest), max_local_dist2)
    /\ BruteNearest \in LocVisited

\* C10 as stated: called with a previous index, the Localizer returns the index an
\* exhaustive scan returns whenever the nearest waypoint is within 20.0 of the
\* vehicle and is reached on the forward circular walk from the previous index.
C10_Original ==
    LocNearestInReach => (last.ret /\ next_waypoint = BruteNearest)

LocNearestUnique ==
    \A j \in Range0(LocLen) : j # BruteNearest => BigLess(LocDist(BruteNearest), LocDist(j))

\* C10 amended: under the same conditions the Localizer returns a waypoint at the
\* same distance as the one the exhaustive scan returns, and the same index when
\* no other waypoint is at that distance.
C10_Amended ==
    LocNearestInReach =>
        /\ last.ret
        /\ LocDist(next_waypoint) = LocDist(BruteNearest)
        /\ LocNearestUnique => next_waypoint = BruteNearest

\* A local scan that stopped early at the nearest waypoint, which is not where it began
C10_Witness ==
    /\ LocNearestInReach /\ Truthy(last.prev)
    /\ last.seen < LocLen
    /\ next_waypoint = BruteNearest /\ next_waypoint # last.prev

\* The walk C17 describes from the index p: step i visits (p + i) mod L
LocWalkDist(p, i) == LocDist((p + i) % LocLen)

\* The step, among the steps 0 .. i of the walk from p, of the smallest distance,
\* the first one among equals
LocWalkMin(p, i) ==
    CHOOSE j \in 0 .. i :
        /\ \A k \in 0 .. i : ~BigLess(LocWalkDist(p, k), LocWalkDist(p, j))
        /\ \A k \in 0 .. (j - 1) : BigLess(LocWalkDist(p, j), LocWalkDist(p, k))

\* The steps at which the distance does not decrease below the smallest so far
LocWalkRises(p) ==
    {i \in 1 .. (LocLen - 1) :
        ~BigLess(LocWalkDist(p, i), LocWalkDist(p, LocWalkMin(p, i - 1)))}

\* The index C17 states for the previous index p
LocWalkResult(p) ==
    LET rises == LocWalkRises(p)
        first == CHOOSE i \in rises : \A j \in rises : i <= j
    IN  IF rises # {}
           /\ BigLess(LocWalkDist(p, LocWalkMin(p, first - 1)), max_local_dist2)
            THEN (p + LocWalkMin(p, first - 1)) % LocLen
            ELSE (p + LocWalkMin(p, LocLen - 1)) % LocLen

\* C17: for every previous index p in 0 .. L-1, index 0 included, next_wpUpdate
\* walks forward circularly from p and returns the index at which the distance
\* stops decreasing if the smallest distance so far is below 20.0, and otherwise
\* the index of the smallest distance of the whole circle, the first in walk
\* order among equals.  (Stated for positions nearer to the path than the start
\* value of dist, line 63.)
C17_Claim ==
    (LocCalled /\ last.prev # None /\ BigLess(LocDist(BruteNearest), LongNumber2)) =>
        (last.ret /\ next_waypoint = LocWalkResult(last.prev))

\* C17 for the previous indices 1 .. L-1
C17_ExceptZero ==
    (LocCalled /\ last.prev # None /\ last.prev # 0
        /\ BigLess(LocDist(BruteNearest), LongNumber2)) =>
        (last.ret /\ next_waypoint = LocWalkResult(last.prev))

(***************************************************************************)
(* updatePublish and msgPublish, lines 94-125                              *)
(***************************************************************************)
LOOKAHEAD_WPS == 100

\* WindowIdx without the wrap of line 109
WindowIdx_NoWrap(nw, num_base_wp) ==
    Eval([k \in 1 .. LOOKAHEAD_WPS |->
            IF nw + k - 1 < num_base_wp THEN nw + k - 1 ELSE num_base_wp - 1])

\* waypoint_idx of line 109
WindowIdx(nw, num_base_wp) ==
    Eval([k \in 1 .. LOOKAHEAD_WPS |-> (nw + k - 1) % num_base_wp])

\* list.index: the first position of x in l, None for the ValueError
IndexOf(l, x) ==
    LET at == {k \in 1 .. Len(l) : l[k] = x}
    IN  IF at = {} THEN None
        ELSE (CHOOSE k \in at : \A j \in at : k <= j) - 1

\* Lines 112-118 on the objects objs of the path, with baseline orig and stop request rl
StopOnRed(objs, orig, fw, rl) ==
    IF params.stop_on_red
        THEN LET restored == restore_velocities(objs, orig, fw)
                 red_idx  == IndexOf(fw, rl)
             IN  IF red_idx # None
                    THEN deaccel(restored, fw, red_idx, params.stop_distance, params)
                    ELSE restored
        ELSE objs

\* Lines 119-124; 1e-5 m/s is below one mm/s
StopOnLast(objs, orig, fw) ==
    IF params.force_stop_on_last_waypoint \/ orig[Len(orig)] < 1
        THEN LET last_wp_idx == IndexOf(fw, Len(objs) - 1)
             IN  IF last_wp_idx # None THEN deaccel(objs, fw, last_wp_idx, 0, params)
                                       ELSE objs
        ELSE objs

\* The velocities publish serialises, line 100
WindowVels(objs, fw) == Eval([k \in 1 .. Len(fw) |-> get_wpVel(objs, fw[k])])

\* updatePublish counting a skipped tick in the sequence number
updatePublish_CountsSkipped(rl) ==
    LET r == next_wpUpdate(base_waypoints, current_pose, next_waypoint)
    IN  IF ~r.ret
            THEN [pub |-> FALSE, heap |-> heap, next_waypoint |-> r.next_waypoint,
                  msg_seq |-> msg_seq + 1, published |-> published,
                  final_msg |-> final_msg, fresh |-> <<>>]
            ELSE LET objs == Wps(base_waypoints)
                     fw   == WindowIdx(r.next_waypoint, Len(objs))
                     o2   == StopOnLast(StopOnRed(objs, original_wpvel, fw, rl),
                                        original_wpvel, fw)
                 IN  [pub |-> TRUE,
                      heap |-> [heap EXCEPT ![base_waypoints] = o2],
                      next_waypoint |-> r.next_waypoint,
                      msg_seq |-> msg_seq + 1,
                      published |-> Append(published, msg_seq),
                      final_msg |-> [seq |-> msg_seq, ref |-> base_waypoints,
                                     idx |-> fw, vel |-> WindowVels(o2, fw)],
                      fresh |-> WindowVels(o2, fw)]

\* updatePublish run without interruption with stop request rl: the fields of the
\* node after it, whether it published, and (fresh) the velocities lines 112-124
\* give when every waypoint of the window starts from its baseline.
updatePublish(rl) ==
    LET r == next_wpUpdate(base_waypoints, current_pose, next_waypoint)
    IN  IF ~r.ret
            THEN [pub |-> FALSE, heap |-> heap, next_waypoint |-> r.next_waypoint,
                  msg_seq |-> msg_seq, published |-> published, final_msg |-> final_msg,
                  fresh |-> <<>>]
            ELSE LET objs == Wps(base_waypoints)
                     fw   == WindowIdx(r.next_waypoint, Len(objs))
                     o2   == StopOnLast(StopOnRed(objs, original_wpvel, fw, rl),
                                        original_wpvel, fw)
                     f2   == StopOnLast(StopOnRed(
                                restore_velocities(objs, original_wpvel, fw),
                                original_wpvel, fw, rl), original_wpvel, fw)
                 IN  [pub |-> TRUE,
                      heap |-> [heap EXCEPT ![base_waypoints] = o2],
                      next_waypoint |-> r.next_waypoint,
                      msg_seq |-> msg_seq + 1,
                      published |-> Append(published, msg_seq),
                      final_msg |-> [seq |-> msg_seq, ref |-> base_waypoints,
                                     idx |-> fw, vel |-> WindowVels(o2, fw)],
                      fresh |-> WindowVels(f2, fw)]

(***************************************************************************)
(* Spec: the waypoint updater, each handler and each planning tick run     *)
(* without interruption.                                                   *)
(***************************************************************************)
MaxDeliveries == 2
MaxSeq == 2
LongLen == 103

\* A Lane message: n waypoints on a line from x0, gap apart, velocity v, the last vlast
LaneMsg(n, x0, gap, v, vlast) ==
    Eval([k \in 1 .. n |-> [pos |-> <<x0 + (k - 1) * gap, 0, 0>>,
                            vel |-> IF k = n THEN vlast ELSE v]])

PathMsgs == {LaneMsg(3, 0, 10, 5000, 5000), LaneMsg(4, 0, 20, 4000, 0),
             LaneMsg(LongLen, 0, 10, 5000, 5000)}
Poses == {<<0, 0>>, <<100, 0>>, <<1010, 0>>}
TrafficData == {-2, -1, 2, 50}

WuParams == [stop_on_red : BOOLEAN, force_stop_on_last_waypoint : BOOLEAN,
             accel : {-1000}, stop_distance : {5000}]

NoLast == [op |-> "init", pub |-> FALSE, err |-> FALSE, prev |-> None, fresh |-> <<>>]

\* __init__, lines 25-42
Init ==
    /\ heap = <<>>
    /\ base_waypoints = EmptyList
    /\ original_wpvel = <<>>
    /\ next_waypoint = None
    /\ current_pose = NoPose
    /\ redlight_wp = None
    /\ msg_seq = 0
    /\ params \in WuParams
    /\ published = <<>>
    /\ final_msg = NoMsg
    /\ last = NoLast
    /\ thr = ThrInit
    /\ dbw = DbwInit

\* pose_cb, lines 127-129
pose_cb ==
    /\ \E p \in Poses : current_pose' = p
    /\ last' = [NoLast EXCEPT !.op = "pose_cb", !.prev = next_waypoint]
    /\ UNCHANGED <<heap, base_waypoints, original_wpvel, next_waypoint, redlight_wp,
                   msg_seq, params, published, final_msg, thr, dbw>>

\* waypoints[self.next_waypoint] of line 140 raises IndexError
WaypointsCbRaises(waypoints) ==
    /\ Len(Wps(base_waypoints)) > 0 /\ next_waypoint # None
    /\ next_waypoint >= Len(waypoints)

\* The test of lines 136-140: the path is taken as changed
WaypointsChanged(waypoints) ==
    /\ Len(Wps(base_waypoints)) > 0 /\ next_waypoint # None
    /\ ~sameWP(At(Wps(base_waypoints), next_waypoint), At(waypoints, next_waypoint))

\* waypoints_cb, lines 131-151, run on the message waypoints
WaypointsCb(waypoints) ==
    IF WaypointsCbRaises(waypoints)
        THEN /\ last' = [NoLast EXCEPT !.op = "waypoints_cb", !.err = TRUE,
                                       !.prev = next_waypoint]
             /\ UNCHANGED <<heap, base_waypoints, original_wpvel, next_waypoint>>
        ELSE /\ next_waypoint' = IF WaypointsChanged(waypoints) THEN None
                                                                ELSE next_waypoint
             /\ original_wpvel' = Vels(waypoints)
             /\ heap' = Append(heap, waypoints)
             /\ base_waypoints' = Len(heap) + 1
             /\ last' = [NoLast EXCEPT !.op = "waypoints_cb", !.prev = next_waypoint]

\* waypoints_cb, lines 131-151
waypoints_cb ==
    /\ Len(heap) < MaxDeliveries
    /\ \E waypoints \in PathMsgs : WaypointsCb(waypoints)
    /\ UNCHANGED <<current_pose, redlight_wp, msg_seq, params, published, final_msg,
                   thr, dbw>>

\* The node after updatePublish with stop request rl, called by op
RunUpdatePublish(op, rl) ==
    \E u \in {updatePublish(rl)} :
        /\ heap' = u.heap
        /\ next_waypoint' = u.next_waypoint
        /\ msg_seq' = u.msg_seq
        /\ published' = u.published
        /\ final_msg' = u.final_msg
        /\ last' = [op |-> op, pub |-> u.pub, err |-> FALSE, prev |-> next_waypoint,
                    fresh |-> u.fresh]

\* One turn of the loop of lines 45-47
Tick ==
    /\ msg_seq < MaxSeq
    /\ RunUpdatePublish("tick", redlight_wp)
    /\ UNCHANGED <<base_waypoints, original_wpvel, current_pose, redlight_wp, params,
                   thr, dbw>>

\* The decoding of line 156
Decode(data) == IF data >= 0 THEN data ELSE None

\* traffic_cb storing the stop request and leaving the tick to the loop
traffic_cb_NoTick ==
    /\ msg_seq < MaxSeq
    /\ \E data \in TrafficData :
        /\ redlight_wp' = Decode(data)
        /\ last' = [NoLast EXCEPT !.op = "traffic_cb", !.prev = next_waypoint]
    /\ UNCHANGED <<heap, next_waypoint, msg_seq, published, final_msg, base_waypoints,
                   original_wpvel, current_pose, params, thr, dbw>>

\* traffic_cb, lines 153-159
traffic_cb ==
    /\ msg_seq < MaxSeq
    /\ \E data \in TrafficData :
        LET rl == Decode(data)
        IN  /\ redlight_wp' = rl
            /\ IF redlight_wp # rl
                 THEN RunUpdatePublish("traffic_cb", rl)
                 ELSE /\ last' = [NoLast EXCEPT !.op = "traffic_cb", !.prev = next_waypoint]
                      /\ UNCHANGED <<heap, next_waypoint, msg_seq, published, final_msg>>
    /\ UNCHANGED <<base_waypoints, original_wpvel, current_pose, params, thr, dbw>>

Next == pose_cb \/ waypoints_cb \/ Tick \/ traffic_cb

Spec == Init /\ [][Next]_vars

(***************************************************************************)
(* SpecPath: the waypoint updater with uninterrupted handlers, on short    *)
(* paths that differ at a given index by less than, exactly and more than  *)
(* the 0.5 of sameWP, and on a path shorter than the others.               *)
(***************************************************************************)
PaMsgs == {LaneMsg(3, 0, 10, 5000, 5000), LaneMsg(3, 0, 15, 5000, 5000),
           LaneMsg(3, 0, 12, 5000, 5000), LaneMsg(2, 0, 10, 5000, 5000)}
PaPoses == {<<0, 0>>, <<12, 0>>, <<40, 0>>}

\* pose_cb, lines 127-129
pa_pose_cb ==
    /\ \E p \in PaPoses : current_pose' = p
    /\ last' = [NoLast EXCEPT !.op = "pose_cb", !.prev = next_waypoint]
    /\ UNCHANGED <<heap, base_waypoints, original_wpvel, next_waypoint, redlight_wp,
                   msg_seq, params, published, final_msg, thr, dbw>>

\* waypoints_cb, lines 131-151
pa_waypoints_cb ==
    /\ Len(heap) < MaxDeliveries
    /\ \E waypoints \in PaMsgs : WaypointsCb(waypoints)
    /\ UNCHANGED <<current_pose, redlight_wp, msg_seq, params, published, final_msg,
                   thr, dbw>>

PaNext == pa_pose_cb \/ pa_waypoints_cb \/ Tick \/ traffic_cb

SpecPath == Init /\ [][PaNext]_vars

(***************************************************************************)
(* Claims about path deliveries (SpecPath)                                 *)
(***************************************************************************)
\* A delivery that replaced the path while a previous index was known
PaReplaced ==
    /\ last.op = "waypoints_cb" /\ ~last.err
    /\ last.prev # None /\ Len(heap) >= 2 /\ base_waypoints = Len(heap)

\* The squared distance, in dm^2, between the old and the new waypoint at the
\* previous index
PaDist2 ==
    Sq3(At(heap[Len(heap) - 1], last.prev).pos, At(heap[Len(heap)], last.prev).pos)

\* C11: a path delivered while a previous index p is known resets the index to
\* unknown if the old and the new waypoint at p are more than 0.5 apart and keeps
\* it if they are 0.5 or less apart; no other event clears the index.
C11_Claim ==
    /\ PaReplaced => IF PaDist2 > 5 * 5 THEN next_waypoint = None
                                        ELSE next_waypoint = last.prev
    /\ (last.prev # None /\ next_waypoint = None) => last.op = "waypoints_cb"

\* C11 with the comparison of line 204: reset at 0.5 or more
C11_AsCoded ==
    /\ PaReplaced => IF PaDist2 >= 5 * 5 THEN next_waypoint = None
                                         ELSE next_waypoint = last.prev
    /\ (last.prev # None /\ next_waypoint = None) => last.op = "waypoints_cb"

(***************************************************************************)
(* SpecConc: the waypoint updater with its threads interleaved.  The loop  *)
(* of __init__ runs updatePublish in the main thread; rospy runs each      *)
(* subscriber's callback in a thread of its own, so traffic_cb (with the   *)
(* updatePublish it calls), waypoints_cb and pose_cb run beside it.  A     *)
(* step is one or a few lines of a handler; what a thread has read into    *)
(* local variables stays as read.  An exception in the main thread ends    *)
(* the node; one in a callback ends that callback.                         *)
(***************************************************************************)
ConcMaxSeq == 1
ConcMaxDeliveries == 2

ConcPathMsgs == {LaneMsg(3, 0, 10, 5000, 5000), LaneMsg(4, 0, 20, 4000, 0)}
ConcPoses == {<<0, 0>>, <<100, 0>>}
ConcTrafficData == {-1, 1}
ConcParams == [stop_on_red : BOOLEAN, force_stop_on_last_waypoint : {FALSE},
               accel : {-1000}, stop_distance : {5000}]

Tickers == {"main", "tcb"}
IdleTick == [pc |-> "idle", fw |-> <<>>, ref |-> NoneRef, num_base_wp |-> 0,
             red_idx |-> None, last_wp_idx |-> None]
IdleWcb == [pc |-> "idle", waypoints |-> <<>>]

\* What the threads did so far: a planning tick raised an exception; a tick read
\* self.base_waypoints as None after its readiness check; a tick used
\* self.base_waypoints and self.original_wpvel of different deliveries; orig_ref
\* is the delivery self.original_wpvel was taken from.
ConcLast == [failed |-> FALSE, read_none |-> FALSE, mixed |-> FALSE,
             orig_ref |-> EmptyList]

ConcInit ==
    /\ heap = <<>>
    /\ base_waypoints = EmptyList
    /\ original_wpvel = <<>>
    /\ next_waypoint = None
    /\ current_pose = NoPose
    /\ redlight_wp = None
    /\ msg_seq = 0
    /\ params \in ConcParams
    /\ published = <<>>
    /\ final_msg = NoMsg
    /\ last = ConcLast
    /\ thr = [main |-> IdleTick, tcb |-> IdleTick, wcb |-> IdleWcb]
    /\ dbw = DbwInit

Alive == thr.main.pc # "dead"

\* Thread t ends its tick with an exception
Raise(t) == [thr EXCEPT ![t] = [IdleTick EXCEPT !.pc = IF t = "main" THEN "dead" ELSE "idle"]]

\* pose_cb, line 129
c_pose_cb ==
    /\ Alive
    /\ \E p \in ConcPoses : current_pose' = p
    /\ UNCHANGED <<last, heap, base_waypoints, original_wpvel, next_waypoint, redlight_wp,
                   msg_seq, params, published, final_msg, thr, dbw>>

\* waypoints_cb, lines 133-143
c_wcb_check ==
    /\ Alive /\ thr.wcb.pc = "idle"
    /\ Len(heap) < ConcMaxDeliveries
    /\ \E waypoints \in ConcPathMsgs :
        IF WaypointsCbRaises(waypoints)
            THEN UNCHANGED <<next_waypoint, base_waypoints, thr>>
            ELSE /\ next_waypoint' = IF WaypointsChanged(waypoints) THEN None
                                                                    ELSE next_waypoint
                 /\ base_waypoints' = IF WaypointsChanged(waypoints) THEN NoneRef
                                                                     ELSE base_waypoints
                 /\ thr' = [thr EXCEPT !.wcb = [pc |-> "orig", waypoints |-> waypoints]]
    /\ UNCHANGED <<last, heap, original_wpvel, current_pose, redlight_wp, msg_seq, params,
                   published, final_msg, dbw>>

\* waypoints_cb, line 147
c_wcb_orig ==
    /\ Alive /\ thr.wcb.pc = "orig"
    /\ original_wpvel' = Vels(thr.wcb.waypoints)
    /\ thr' = [thr EXCEPT !.wcb.pc = "base"]
    /\ last' = [last EXCEPT !.orig_ref = Len(heap) + 1]
    /\ UNCHANGED <<heap, base_waypoints, next_waypoint, current_pose, redlight_wp,
                   msg_seq, params, published, final_msg, dbw>>

\* waypoints_cb, line 148
c_wcb_base ==
    /\ Alive /\ thr.wcb.pc = "base"
    /\ heap' = Append(heap, thr.wcb.waypoints)
    /\ base_waypoints' = Len(heap) + 1
    /\ thr' = [thr EXCEPT !.wcb = IdleWcb]
    /\ UNCHANGED <<last, original_wpvel, next_waypoint, current_pose, redlight_wp, msg_seq,
                   params, published, final_msg, dbw>>

\* Thread t enters updatePublish: the readiness checks of lines 51-55
EnterTick(t) ==
    IF LocReady(base_waypoints, current_pose)
        THEN [thr EXCEPT ![t] = [IdleTick EXCEPT !.pc = "scan"]]
        ELSE [thr EXCEPT ![t] = IdleTick]

\* The loop of lines 45-47 calls updatePublish
c_tick_start ==
    /\ Alive /\ thr.main.pc = "idle"
    /\ msg_seq < ConcMaxSeq
    /\ thr' = EnterTick("main")
    /\ UNCHANGED <<last, heap, base_waypoints, original_wpvel, next_waypoint, current_pose,
                   redlight_wp, msg_seq, params, published, final_msg, dbw>>

\* traffic_cb, lines 155-159
c_traffic_cb ==
    /\ Alive /\ thr.tcb.pc = "idle"
    /\ msg_seq < ConcMaxSeq
    /\ \E data \in ConcTrafficData :
        LET rl == IF data >= 0 THEN data ELSE None
        IN  /\ redlight_wp' = rl
            /\ thr' = IF redlight_wp # rl THEN EnterTick("tcb") ELSE thr
    /\ UNCHANGED <<last, heap, base_waypoints, original_wpvel, next_waypoint, current_pose,
                   msg_seq, params, published, final_msg, dbw>>

\* next_wpUpdate, lines 57-92
c_scan(t) ==
    /\ Alive /\ thr[t].pc = "scan"
    /\ IF base_waypoints = NoneRef
         THEN /\ thr' = Raise(t)
              /\ last' = [last EXCEPT !.failed = TRUE, !.read_none = TRUE]
              /\ UNCHANGED next_waypoint
         ELSE \E s \in {Localize(Wps(base_waypoints), current_pose, next_waypoint)} :
                /\ next_waypoint' = IF s.wp = None THEN next_waypoint ELSE s.wp
                /\ thr' = [thr EXCEPT ![t] = IF s.wp = None THEN IdleTick
                                             ELSE [IdleTick EXCEPT !.pc = "window"]]
                /\ UNCHANGED last
    /\ UNCHANGED <<heap, base_waypoints, original_wpvel, current_pose, redlight_wp,
                   msg_seq, params, published, final_msg, dbw>>

\* updatePublish, lines 107-110
c_window(t) ==
    /\ Alive /\ thr[t].pc = "window"
    /\ IF base_waypoints = NoneRef \/ next_waypoint = None
         THEN /\ thr' = Raise(t)
              /\ last' = [last EXCEPT !.failed = TRUE,
                                      !.read_none = @ \/ base_waypoints = NoneRef]
         ELSE /\ thr' = [thr EXCEPT ![t] =
                    [IdleTick EXCEPT !.pc = "restore", !.ref = base_waypoints,
                       !.num_base_wp = Len(Wps(base_waypoints)),
                       !.fw = WindowIdx(next_waypoint, Len(Wps(base_waypoints)))]]
              /\ UNCHANGED last
    /\ UNCHANGED <<heap, base_waypoints, original_wpvel, next_waypoint, current_pose,
                   redlight_wp, msg_seq, params, published, final_msg, dbw>>

\* The entries of indexes before the first one that self.base_waypoints[idx] or
\* self.original_wpvel[idx] of line 167 cannot read
Readable(indexes, n) ==
    LET bad == {k \in 1 .. Len(indexes) : indexes[k] >= n}
    IN  IF bad = {} THEN indexes
        ELSE SubSeq(indexes, 1, (CHOOSE k \in bad : \A j \in bad : k <= j) - 1)

\* updatePublish, lines 112-113
c_restore(t) ==
    /\ Alive /\ thr[t].pc = "restore"
    /\ IF ~params.stop_on_red
         THEN /\ thr' = [thr EXCEPT ![t].pc = "profile"]
              /\ UNCHANGED last
              /\ UNCHANGED heap
         ELSE IF base_waypoints = NoneRef
         THEN /\ thr' = Raise(t)
              /\ last' = [last EXCEPT !.failed = TRUE, !.read_none = TRUE]
              /\ UNCHANGED heap
         ELSE LET n  == Min(Len(Wps(base_waypoints)), Len(original_wpvel))
                  ok == Readable(thr[t].fw, n)
              IN  /\ heap' = [heap EXCEPT ![base_waypoints] =
                                restore_velocities(@, original_wpvel, ok)]
                  /\ thr' = IF ok = thr[t].fw THEN [thr EXCEPT ![t].pc = "profile"]
                                              ELSE Raise(t)
                  /\ last' = [last EXCEPT !.failed = @ \/ ok # thr[t].fw,
                                !.mixed = @ \/ last.orig_ref # base_waypoints
                                            \/ thr[t].ref # base_waypoints]
    /\ UNCHANGED <<base_waypoints, original_wpvel, next_waypoint, current_pose,
                   redlight_wp, msg_seq, params, published, final_msg, dbw>>

\* updatePublish, lines 114-124, on the objects of final_waypoints; red_idx and
\* last_wp_idx keep the offsets deaccel was called with (None: not called)
c_profile(t) ==
    /\ Alive /\ thr[t].pc = "profile"
    /\ LET fw   == thr[t].fw
           objs == heap[thr[t].ref]
           red_idx == IF params.stop_on_red THEN IndexOf(fw, redlight_wp) ELSE None
           o1 == IF red_idx # None
                    THEN deaccel(objs, fw, red_idx, params.stop_distance, params)
                    ELSE objs
           last_wp_idx == IF params.force_stop_on_last_waypoint
                                \/ original_wpvel[Len(original_wpvel)] < 1
                            THEN IndexOf(fw, thr[t].num_base_wp - 1)
                            ELSE None
           o2 == IF last_wp_idx # None THEN deaccel(o1, fw, last_wp_idx, 0, params)
                                       ELSE o1
       IN  /\ heap' = [heap EXCEPT ![thr[t].ref] = o2]
           /\ last' = [last EXCEPT !.mixed = @ \/ last.orig_ref # thr[t].ref]
           /\ thr' = [thr EXCEPT ![t].pc = "pub", ![t].red_idx = red_idx,
                                 ![t].last_wp_idx = last_wp_idx]
    /\ UNCHANGED <<base_waypoints, original_wpvel, next_waypoint, current_pose,
                   redlight_wp, msg_seq, params, published, final_msg, dbw>>

\* msgPublish, lines 95-100
c_publish(t) ==
    /\ Alive /\ thr[t].pc = "pub"
    /\ final_msg' = [seq |-> msg_seq, ref |-> thr[t].ref, idx |-> thr[t].fw,
                     vel |-> WindowVels(heap[thr[t].ref], thr[t].fw)]
    /\ published' = Append(published, msg_seq)
    /\ thr' = [thr EXCEPT ![t].pc = "inc"]
    /\ UNCHANGED <<last, heap, base_waypoints, original_wpvel, next_waypoint, current_pose,
                   redlight_wp, msg_seq, params, dbw>>

\* msgPublish, line 101
c_seq_inc(t) ==
    /\ Alive /\ thr[t].pc = "inc"
    /\ msg_seq' = msg_seq + 1
    /\ thr' = [thr EXCEPT ![t] = IdleTick]
    /\ UNCHANGED <<last, heap, base_waypoints, original_wpvel, next_waypoint, current_pose,
                   redlight_wp, params, published, final_msg, dbw>>

ConcNext ==
    \/ c_pose_cb \/ c_wcb_check \/ c_wcb_orig \/ c_wcb_base
    \/ c_tick_start \/ c_traffic_cb
    \/ \E t \in Tickers :
        c_scan(t) \/ c_window(t) \/ c_restore(t) \/ c_profile(t) \/ c_publish(t)
            \/ c_seq_inc(t)

SpecConc == ConcInit /\ [][ConcNext]_vars

(***************************************************************************)
(* SpecDbw: the control node, dbw_node.py.  Five callbacks store the last  *)
(* message of their topic; loop runs one iteration per step.  The numbers  *)
(* the controller computes are not part of the state: an iteration records *)
(* whether the controller was called, reset, and its output published.     *)
(***************************************************************************)
MaxDbwTicks == 3
DbwVelocities == {0, 5000}
DbwWindowLens == {10, 100}
DbwPoses == {<<0, 0>>}

\* The index of line 88
offset == 15

DbwStep(d) ==
    /\ dbw' = d
    /\ UNCHANGED <<heap, base_waypoints, original_wpvel, next_waypoint, current_pose,
                   redlight_wp, msg_seq, params, published, final_msg, last, thr>>

DbwSpecInit ==
    /\ heap = <<>>
    /\ base_waypoints = EmptyList
    /\ original_wpvel = <<>>
    /\ next_waypoint = None
    /\ current_pose = NoPose
    /\ redlight_wp = None
    /\ msg_seq = 0
    /\ params \in {p \in WuParams : p.stop_on_red /\ ~p.force_stop_on_last_waypoint}
    /\ published = <<>>
    /\ final_msg = NoMsg
    /\ last = NoLast
    /\ thr = ThrInit
    /\ dbw = DbwInit

\* line 175
twist_message_callback ==
    /\ dbw.alive
    /\ \E v \in DbwVelocities : DbwStep([dbw EXCEPT !.proposed_velocity = <<v>>])

\* line 193
current_velocity_callback ==
    /\ dbw.alive
    /\ \E v \in DbwVelocities : DbwStep([dbw EXCEPT !.current_velocity = <<v>>])

\* lines 196-201
dbw_enabled_callback ==
    /\ dbw.alive
    /\ \E b \in BOOLEAN : DbwStep([dbw EXCEPT !.is_dbw_enabled = b])

\* lines 203-204
final_waypoints_cb ==
    /\ dbw.alive
    /\ \E n \in DbwWindowLens : DbwStep([dbw EXCEPT !.final_waypoints = <<n>>])

\* lines 206-207
current_pose_cb ==
    /\ dbw.alive
    /\ \E p \in DbwPoses : DbwStep([dbw EXCEPT !.current_pose = p])

\* get_cross_track_error, lines 77-107, raises: IndexError at line 79 or 88 for a
\* window without an entry at index 0 or at offset, AttributeError at line 101
\* for a pose of None
CteRaises(final_waypoints, pose) ==
    \/ final_waypoints[1] <= offset
    \/ pose = NoPose

\* The condition of line 114
LoopReady(d) ==
    d.current_velocity # <<>> /\ d.proposed_velocity # <<>> /\ d.final_waypoints # <<>>

\* ResetCondition read as (not A or B) and C
ResetCondition_OrFirst(d) ==
    /\ (~d.is_dbw_enabled \/ Abs(d.current_velocity[1]) < 1)
    /\ Abs(d.proposed_velocity[1]) < 1

\* The condition of lines 132-134: not A or B and C
ResetCondition(d) ==
    \/ ~d.is_dbw_enabled
    \/ (Abs(d.current_velocity[1]) < 1 /\ Abs(d.proposed_velocity[1]) < 1)

\* One iteration of the while loop, lines 112-139
loop ==
    /\ dbw.alive /\ dbw.ticks < MaxDbwTicks
    /\ LET missing == ~LoopReady(dbw) \/ dbw.current_pose = NoPose
           t == [NoTick EXCEPT !.ran = TRUE, !.missing = missing,
                            !.window = dbw.final_waypoints]
       IN  IF ~LoopReady(dbw)
             THEN DbwStep([dbw EXCEPT !.ticks = @ + 1, !.tick = t])
           ELSE IF CteRaises(dbw.final_waypoints, dbw.current_pose)
             THEN DbwStep([dbw EXCEPT !.ticks = @ + 1, !.alive = FALSE,
                                      !.tick = [t EXCEPT !.raised = TRUE]])
           ELSE DbwStep([dbw EXCEPT !.ticks = @ + 1,
                            !.tick = [t EXCEPT !.controlled = TRUE,
                                               !.reset = ResetCondition(dbw),
                                               !.published = dbw.is_dbw_enabled]])

DbwNext ==
    \/ twist_message_callback \/ current_velocity_callback \/ dbw_enabled_callback
    \/ final_waypoints_cb \/ current_pose_cb \/ loop

SpecDbw == DbwSpecInit /\ [][DbwNext]_vars

(***************************************************************************)
(* Claims about the control loop (SpecDbw)                                 *)
(***************************************************************************)
\* A window, if one was received, has an entry at the estimator's offset
DbwWindowFits == dbw.tick.window = <<>> \/ dbw.tick.window[1] > offset

\* C5: a control tick in which one of current velocity, target twist, published
\* window or pose has not been received is skipped: it does not call the
\* controller, publishes no actuation and raises no error that ends the loop.
\* (Stated for the windows the estimator can index, so that an error is due to
\* the missing input alone.)
C5_Claim ==
    (dbw.tick.ran /\ dbw.tick.missing /\ DbwWindowFits) =>
        (~dbw.tick.controlled /\ ~dbw.tick.published /\ ~dbw.tick.raised)

\* C15: given a window with fewer than 16 entries, get_cross_track_error gives an
\* explicit failure result: it raises no error that aborts the control tick (and
\* hands the controller no number).
C15_Claim ==
    (dbw.tick.ran /\ ~dbw.tick.missing /\ dbw.tick.window[1] < 16) =>
        (~dbw.tick.raised /\ ~dbw.tick.controlled)

\* C13: in every control tick that runs (that reaches the controller), the
\* controller is reset if and only if the enable flag is false or both the current
\* and the target linear velocity are below 1e-5 in magnitude; and a tick
\* publishes actuation values only if the enable flag is true.
C13_Claim ==
    [][dbw'.ticks = dbw.ticks + 1 =>
        /\ dbw'.tick.controlled =>
              (dbw'.tick.reset <=>
                 (\/ dbw.is_dbw_enabled = FALSE
                  \/ (/\ dbw.current_velocity \in {<<0>>}
                      /\ dbw.proposed_velocity \in {<<0>>})))
        /\ dbw'.tick.published => dbw.is_dbw_enabled]_vars

\* An enabled tick at standstill: the controller is reset and its output published
C13_Witness ==
    /\ dbw.tick.controlled /\ dbw.tick.reset /\ dbw.tick.published
    /\ dbw.is_dbw_enabled /\ dbw.current_velocity = <<0>> /\ dbw.proposed_velocity = <<0>>

(***************************************************************************)
(* Claims about the interleaved waypoint updater (SpecConc)                *)
(***************************************************************************)
\* C6: under any interleaving of waypoints_cb with a planning tick, the tick
\* reads a waypoint list and a baseline list of the same delivery, never reads
\* the cleared path after its readiness check, and so never fails.
C6_Claim == ~last.failed /\ ~last.read_none /\ ~last.mixed

\* C7: the sequence numbers of the published windows are 0, 1, 2, ... : each one
\* more than the one before, none used twice, under any interleaving of the
\* periodic tick with the tick run by traffic_cb.
C7_Claim == \A k \in 1 .. Len(published) : published[k] = k - 1

\* C19: every window published with a stop line active at offset S > 0 (the stop
\* request that tick observed, with stop_on_red; or the last waypoint of the path
\* when the end-of-path stop applies) has velocity 0 at offset S when it is
\* published, under any interleaving of the loop's tick with the tick of
\* traffic_cb.
C19_Claim ==
    [][\A t \in Tickers :
        (thr[t].pc = "pub" /\ thr'[t].pc = "inc") =>
            \A S \in {thr[t].red_idx, thr[t].last_wp_idx} :
                S > 0 => final_msg'.vel[S + 1] = 0]_vars

(***************************************************************************)
(* Claims about the waypoint updater with uninterrupted handlers (Spec)    *)
(***************************************************************************)
Path == Wps(base_waypoints)

\* C2: after any sequence of path deliveries, stop-request updates and planning
\* ticks, every waypoint's velocity is at most its baseline velocity, whichever
\* stop triggers were applied.
C2_VelAtMostBaseline ==
    /\ Len(original_wpvel) = Len(Path)
    /\ \A i \in 1 .. Len(Path) : Path[i].vel <= original_wpvel[i]

\* A tick that applied both triggers and left a waypoint below its baseline
C2_Witness ==
    /\ last.pub /\ params.stop_on_red /\ params.force_stop_on_last_waypoint
    /\ IndexOf(final_msg.idx, redlight_wp) > 0
    /\ IndexOf(final_msg.idx, Len(Path) - 1) > 0
    /\ \E i \in 1 .. Len(Path) : 0 < Path[i].vel /\ Path[i].vel < original_wpvel[i]

\* C3 as stated: in every planning tick, with stop-on-red enabled or disabled, the
\* window's velocities are reset to baseline before any profile is applied, so the
\* published velocities are those profiling gives from the baseline.
C3_Claim == last.pub => final_msg.vel = last.fresh

\* C3 holds of the ticks run with stop_on_red set
C3_WhenStopOnRed == (last.pub /\ params.stop_on_red) => final_msg.vel = last.fresh

\* C12: a stop-request update whose decoded value (a negative value decodes to
\* none) differs from the stored one runs a planning tick inside the handler, and
\* that tick profiles with the new stop request: with a path and a pose it
\* publishes the next window, whose entry at the new stop line has velocity 0; an
\* update that leaves the stored value unchanged publishes and changes nothing.
C12_Claim ==
    [][last'.op = "traffic_cb" =>
        /\ redlight_wp' = None \/ redlight_wp' >= 0
        /\ IF redlight_wp' # redlight_wp
              THEN LocReady(base_waypoints, current_pose) =>
                    /\ msg_seq' = msg_seq + 1
                    /\ final_msg'.seq = msg_seq
                    /\ LET S == IndexOf(final_msg'.idx, redlight_wp')
                       IN  (params.stop_on_red /\ S # None /\ S > 0) =>
                                final_msg'.vel[S + 1] = 0
              ELSE /\ msg_seq' = msg_seq /\ published' = published
                   /\ final_msg' = final_msg /\ heap' = heap]_vars

\* traffic_cb published a window that slows down to the stop line it was given
C12_Witness ==
    /\ last.op = "traffic_cb" /\ last.pub /\ params.stop_on_red
    /\ redlight_wp = 50 /\ IndexOf(final_msg.idx, 50) > 0
    /\ final_msg.vel[IndexOf(final_msg.idx, 50) + 1] = 0
    /\ final_msg.vel[1] > 0

\* C14: a planning tick that runs while the path is empty or unset, or while no
\* pose has been received, is a no-op: nothing is published, and the sequence
\* number, the previous index and every waypoint velocity are unchanged; no error
\* is raised.
C14_Claim ==
    [][(/\ last'.op \in {"tick", "traffic_cb"}
        /\ (base_waypoints \in {EmptyList, NoneRef} \/ current_pose = NoPose)) =>
        /\ published' = published /\ final_msg' = final_msg /\ ~last'.pub
        /\ msg_seq' = msg_seq /\ next_waypoint' = next_waypoint
        /\ heap' = heap /\ original_wpvel' = original_wpvel
        /\ ~last'.err]_vars

\* A tick of the loop that ran with a path and without a pose
C14_Witness ==
    /\ last.op = "tick" /\ ~last.pub
    /\ base_waypoints # EmptyList /\ current_pose = NoPose

\* The stop request is none, or not among the window's indices, or at offset 0
NoUpstreamStop == IndexOf(final_msg.idx, redlight_wp) \in {None, 0}

\* The end-of-path stop is not configured, or the last waypoint is not in the window
NoEndOfPathStop ==
    \/ ~(params.force_stop_on_last_waypoint \/ original_wpvel[Len(original_wpvel)] < 1)
    \/ IndexOf(final_msg.idx, Len(Path) - 1) = None

\* The baseline velocities of the window's waypoints
BaselineVels == [k \in 1 .. Len(final_msg.idx) |-> original_wpvel[final_msg.idx[k] + 1]]

\* C18: if the stop request is none, not among the window's indices or at offset
\* 0, the upstream-stop trigger changes no velocity and raises no error; when in
\* addition no end-of-path stop applies, the published window carries exactly the
\* baseline velocities.
C18_Claim ==
    (last.pub /\ NoUpstreamStop /\ NoEndOfPathStop) =>
        (final_msg.vel = BaselineVels /\ ~last.err)

\* C18 for the ticks run with stop_on_red set
C18_WhenStopOnRed ==
    (last.pub /\ params.stop_on_red /\ NoUpstreamStop /\ NoEndOfPathStop) =>
        (final_msg.vel = BaselineVels /\ ~last.err)

\* C20: after any sequence of path deliveries, pose updates, stop-request updates
\* and planning ticks, the stored previous index is unknown or a valid index of
\* the stored path (0 <= index < L), also after a shorter path was delivered,
\* and no path delivery fails with an error.
C20_IndexValid == next_waypoint = None \/ (0 <= next_waypoint /\ next_waypoint < Len(Path))
C20_Claim == C20_IndexValid /\ ~(last.op = "waypoints_cb" /\ last.err)

\* C8: every published window has LOOKAHEAD_WPS = 100 entries, and entry k is the
\* waypoint of the path at index (i + k) mod L, i being the index next_wpUpdate
\* set in that tick, for every path length L >= 1.
C8_Window ==
    last.pub =>
        /\ Len(final_msg.idx) = 100
        /\ final_msg.ref = base_waypoints
        /\ \A k \in Range0(100) :
            At(final_msg.idx, k) = (next_waypoint + k) % Len(Path)

\* A window over a path shorter than the window, starting past index 0
C8_Witness ==
    /\ last.pub /\ Len(Path) = 3 /\ next_waypoint = 2
    /\ At(final_msg.idx, 0) = 2 /\ At(final_msg.idx, 1) = 0 /\ At(final_msg.idx, 99) = 2

====
